---- MODULE Spec2Model ----
(***************************************************************************)
(* Drimit Shield protection service (src/modal): the poisoning             *)
(* orchestrator ModelService.process_job, the mist / grayscale / watermark *)
(* workers and the legacy MistProcessor, their submit and check_status     *)
(* endpoints, and the shared state map "shield-job-states".                *)
(*                                                                         *)
(* Abstractions.  Image bytes are abstract resources with a pixel size and *)
(* a mode; text (error messages, keys, URLs) is kept as structured values  *)
(* whose parts are the parts the code formats into the string; timestamps  *)
(* and durations are left out.  Every library or remote call that may      *)
(* raise is a nondeterministic choice between its normal return and an     *)
(* exception.                                                              *)
(***************************************************************************)
EXTENDS Integers, Sequences, FiniteSets, TLC

\* ------------------------------------------------------------------ bounds

\* Image sides are 1..MaxSide abstract pixels; max_res ranges over the same.
MaxSide == 2

\* ------------------------------------------------------- program constants

\* len(p) == 64 in the hash recognizer of the poisoning orchestrator.
HashLen == 64

HTTP_OK == 200

HTTP_401_UNAUTHORIZED == 401

HTTP_500 == 500

\* ----------------------------------------------------------- input domains

ArtworkIds == {"art1", "art2"}

UserIds == {"u1", "u2"}

Apps == {"poisoning", "mist", "grayscale", "watermark", "legacy"}

\* The apps whose workers and endpoints use the shared state map.
StateMapApps == {"poisoning", "mist", "grayscale", "watermark"}

\* Status codes the input URL may answer with.
StatusCodes == {200, 204, 404}

\* Path segments of image URLs.  "H1" and "H2" stand for strings of 64
\* hexadecimal digits, "H63" for 63 hexadecimal digits, "G64" for 64
\* characters that are not all hexadecimal.
SegLen(s) ==
  CASE s \in {"H1", "H2", "G64"} -> 64
    [] s = "H63" -> 63
    [] OTHER -> 8

SegIsHex(s) == s \in {"H1", "H2", "H63"}

\* Image URLs, as the sequence of the segments of their path
\* (https://host/seg1/seg2/...).
ProxyUrl == <<"api", "assets", "u1", "H1", "original.png">>

ProxyUrlNoHash == <<"api", "assets", "u1", "H63", "original.png">>

ExternalUrl == <<"gallery", "H2", "full", "large.png">>

BareUrl == <<"photo.png">>

Urls == {ProxyUrl, ProxyUrlNoHash, ExternalUrl, BareUrl}

\* Downloaded bytes: an image of w x h pixels in mode RGB or RGBA, or bytes
\* that are no image (w = 0).
Image(w, h, mode) == [w |-> w, h |-> h, mode |-> mode]

Garbage == [w |-> 0, h |-> 0, mode |-> "none"]

NoContent == [w |-> 0, h |-> 0, mode |-> "unset"]

\* What each URL may serve when it answers 200.
Serves(url) ==
  IF url = ProxyUrl
    THEN {Image(1, 1, "RGB"), Image(1, 1, "RGBA"), Garbage}
  ELSE IF url = ExternalUrl
    THEN {Image(w, h, "RGB") : w \in 1..MaxSide, h \in 1..MaxSide}
  ELSE {Image(1, 1, "RGB")}

\* hashlib.sha256(bytes).hexdigest(): a 64-hex digest, distinct for distinct
\* bytes.
Sha256(c) == "sha256:" \o c.mode \o ToString(c.w) \o "x" \o ToString(c.h)

\* ---------------------------------------------------------------- requests

\* ProtectionRequest.config of the poisoning app; a key that is absent from
\* the mapping is modelled by the default that config.get(...) gives it.
Config(p, c, w, v, res) ==
  [apply_poison |-> p, apply_concept_poison |-> c, apply_watermark |-> w,
   apply_visual_watermark |-> v, apply_verification |-> FALSE,
   secret_key |-> "null", max_res |-> res]

ProtectionRequest(url, aid, uid, method, config, preview, verify) ==
  [image_url |-> url, artwork_id |-> aid, user_id |-> uid, method |-> method,
   config |-> config, is_preview |-> preview, verify_protection |-> verify]

\* Requests that vary the protection flags, without verification.
FlagRequests ==
  {ProtectionRequest(ProxyUrl, "art1", "u1", "poisoning",
                     Config(p, c, w, v, MaxSide), FALSE, FALSE) :
     p \in BOOLEAN, c \in BOOLEAN, w \in BOOLEAN, v \in BOOLEAN}

\* Requests that ask for verification, by verify_protection or by
\* config["apply_verification"], with nothing, one or several stages applied.
VerifyRequests ==
  {ProtectionRequest(ProxyUrl, "art1", "u1", "poisoning",
                     Config(FALSE, FALSE, FALSE, FALSE, MaxSide), FALSE, TRUE),
   ProtectionRequest(ProxyUrl, "art1", "u1", "poisoning",
                     [Config(FALSE, FALSE, TRUE, FALSE, MaxSide)
                        EXCEPT !.apply_verification = TRUE], FALSE, FALSE),
   ProtectionRequest(ProxyUrl, "art1", "u1", "poisoning",
                     Config(TRUE, FALSE, TRUE, TRUE, MaxSide), FALSE, TRUE),
   ProtectionRequest(ProxyUrl, "art1", "u1", "poisoning",
                     [Config(FALSE, FALSE, TRUE, FALSE, MaxSide)
                        EXCEPT !.secret_key = "key1"], FALSE, TRUE)}

\* Requests that vary the source URL, the owner and the bucket.
KeyRequests ==
  {ProtectionRequest(url, "art1", uid, "poisoning",
                     Config(FALSE, FALSE, FALSE, FALSE, MaxSide), pv, FALSE) :
     url \in Urls, uid \in UserIds, pv \in BOOLEAN}

\* Requests that vary max_res against the size of the image served.
SizeRequests ==
  {ProtectionRequest(ExternalUrl, "art1", "u1", "poisoning",
                     Config(TRUE, FALSE, TRUE, FALSE, res), FALSE, FALSE) :
     res \in 1..MaxSide}

PoisoningRequests ==
  FlagRequests \cup VerifyRequests \cup KeyRequests \cup SizeRequests

\* Requests sent to the mist, grayscale, watermark and legacy apps.
Methods == {"mist", "grayscale", "watermark"}

WorkerRequest(url, uid, m, pv) ==
  ProtectionRequest(url, "art1", uid, m,
                    Config(FALSE, FALSE, FALSE, FALSE, MaxSide), pv, FALSE)

\* They vary the source URL and the owner, or the bucket, or the method.
WorkerRequests ==
  {WorkerRequest(url, uid, "mist", FALSE) : url \in Urls, uid \in UserIds}
  \cup {WorkerRequest(ProxyUrl, "u1", "mist", TRUE)}
  \cup {WorkerRequest(ProxyUrl, "u1", m, FALSE) : m \in Methods}

NoRequest ==
  ProtectionRequest(<<>>, "", "", "", Config(FALSE, FALSE, FALSE, FALSE, 0),
                    FALSE, FALSE)

\* -------------------------------------------------------------- environment

\* Names of the secrets present in os.environ.  R2_* are always configured.
Envs == {{"AUTH_TOKEN", "MODAL_AUTH_TOKEN"}, {}}

\* The value of the configured bearer token.
Token == "tok"

\* Bearer credentials a caller may present; " tok" carries white space.
Credentials == {"tok", " tok", "bad"}

\* str.strip()
Strip(c) == IF c = " tok" THEN "tok" ELSE c

\* -------------------------------------------------------------- error texts

\* str(e): the text the code formats, and the number it formats into it.
NoError == [text |-> "null", code |-> 0]

Error(text) == [text |-> text, code |-> 0]

\* A faulty message, which leaves the status code out.
DownloadFailedNoCode(code) == [text |-> "Download failed", code |-> 0]

\* f"Download failed: {r.status_code}"
DownloadFailed(code) == [text |-> "Download failed: ", code |-> code]

\* f"Download Message Failed: {r.status_code}"
DownloadMessageFailed(code) == [text |-> "Download Message Failed: ", code |-> code]

\* job_states[aid] on a missing key
KeyError(aid) == [text |-> "KeyError " \o aid, code |-> 0]

VerificationIgnored ==
  Error("Verification ignored: No protection methods were applied to this image.")

\* ------------------------------------------------------ verification report

\* verifier_report of the orchestrator.  kind: "null" (None), "metrics"
\* ({"poison_metrics": ...}), "skipped" ({"error", "skipped"}), "error"
\* ({"error": ...}) or "audit" (the verifier's report).  pixel / sdxl /
\* semantic: the report still carries non-None mimicry bytes of that attack.
\* keys: the *_attack_key entries added after an artifact upload.
\* report["watermark_audit"] = None
NoAudit == [detected |-> FALSE, key |-> "none"]

Report(kind, error, pixel, sdxl, semantic) ==
  [kind |-> kind, error |-> error, pixel |-> pixel, sdxl |-> sdxl,
   semantic |-> semantic, keys |-> {}, watermark_audit |-> NoAudit]

NoReport == Report("null", NoError, FALSE, FALSE, FALSE)

\* What VerifierEngine.verify_protection returns: its own except clause
\* turns any failure into {"error": str(e)}; otherwise the report, whose
\* attack bytes are None for an attack that failed.  The text-to-image bytes
\* are produced after the image-to-image bytes in the same try block.
VerifierReturns ==
  {Report("error", Error("verification failed"), FALSE, FALSE, FALSE)}
  \cup {Report("audit", NoError, px, sd, px /\ sm) :
          px \in BOOLEAN, sd \in BOOLEAN, sm \in BOOLEAN}

\* ------------------------------------------------------------ object store

R2_BUCKET_PROD == "drimit-shield-bucket"

R2_BUCKET_DEV == "drimit-shield-dev-bucket"

NoKey == <<>>

\* An alpha band: its size and where it comes from.
NoAlpha == [w |-> 0, h |-> 0, of |-> "none"]

\* A decoded image: pixel size, mode, the alpha band it carries, and the
\* changes made to the pixels of the decoded input, in order, and the key of
\* the spread-spectrum mark embedded in it.
NoImg == [width |-> 0, height |-> 0, mode |-> "none", alpha |-> NoAlpha,
          layers |-> <<>>, ssw_key |-> "none"]

\* current_img.getchannel('A') of an RGBA input; None otherwise.
getchannel_A(c) ==
  IF c.mode = "RGBA" THEN [w |-> c.w, h |-> c.h, of |-> "input"] ELSE NoAlpha

putalpha_skipped(img, alpha) == img

\* alpha.resize(current_img.size) when the sizes differ, then putalpha.
putalpha(img, alpha) ==
  [img EXCEPT !.mode = "RGBA",
              !.alpha = IF <<alpha.w, alpha.h>> # <<img.width, img.height>>
                          THEN [w |-> img.width, h |-> img.height,
                                of |-> "resized"]
                          ELSE alpha]

\* One put_object call: the bucket, the key, the image in its body, and
\* whether the store took it.
Put(bucket, key, body, ok) ==
  [bucket |-> bucket, key |-> key, body |-> body, ok |-> ok]

\* --------------------------------------------------------------- state map

NoEntry == [status |-> "absent"]

HasEntry(states, aid) == states[aid].status # "absent"

\* ProtectionResult
NoMeta == [width |-> 0, height |-> 0]

ProtectionResult(aid, status, url, purl, pkey, meta, err, applied, report) ==
  [artwork_id |-> aid, status |-> status, original_image_url |-> url,
   protected_image_url |-> purl, protected_image_key |-> pkey,
   file_metadata |-> meta, error_message |-> err,
   applied_protections |-> applied, verification_report |-> report]

NoResult ==
  ProtectionResult("", "none", <<>>, NoKey, NoKey, NoMeta, NoError, <<>>, NoReport)

\* ------------------------------------------------------------------- state

VARIABLES
  env,         \* the secrets configured in the deployment
  job_states,  \* modal.Dict "shield-job-states": artwork id -> JobState
  job,         \* the process_job invocation in flight: position and locals
  submit,      \* a submit endpoint suspended after its spawn
  response,    \* the last HTTP response an endpoint gave
  engine,      \* the PoisonEngine.apply_poison call in flight: position, locals
  poison_engine,  \* a PoisonEngine container: the attributes of the instance
  verifier,    \* a VerifierEngine container: the models held, the call in flight
  rival        \* a second process_job invocation for the same artwork id

vars == <<env, job_states, job, submit, response, engine, poison_engine,
          verifier, rival>>

\* The locals of a process_job invocation.  exception: the exception the
\* outer except clause has caught (history).  get_auth: "unsent" before the
\* GET, then "bearer" or "none" as the Authorization header was attached or
\* not.  puts: the put_object calls issued, in order.  raised: the stages
\* that raised an exception so far, caught or not (history).  trace: the
\* calls made, in order (history).  last_update: the message of the latest
\* .update() call (history).  verifier_img: the image handed to the verifier
\* (history).  elapsed: seconds of execution spent so far.  engine_seconds:
\* how long the PoisonEngine call runs.  writes: the statuses this invocation
\* has written to the state map, in order (history).
NewJob(app, req) ==
  [app |-> app, pc |-> "start", req |-> req,
   get_auth |-> "unsent", http_status |-> 0, content |-> NoContent,
   img |-> NoImg, alpha |-> NoAlpha, watermark_key |-> "none",
   trace |-> <<>>, last_update |-> "none", verifier_img |-> NoImg,
   elapsed |-> 0, engine_seconds |-> 0, writes |-> <<>>,
   applied_methods |-> <<>>, verifier_report |-> NoReport,
   protected_key |-> NoKey, protected_url |-> NoKey, file_meta |-> NoMeta,
   status_code |-> "failed", error_msg |-> NoError,
   puts |-> <<>>, raised |-> {}, exception |-> NoError, result |-> NoResult]

NoJob == [NewJob("none", NoRequest) EXCEPT !.pc = "idle"]

NoSubmit == [app |-> "none", pc |-> "idle"]

\* An HTTP exchange: the endpoint and app called, the request as far as the
\* endpoint reads it, and the status code and body answered.
Response(endpoint, app, request, code, body) ==
  [endpoint |-> endpoint, app |-> app, request |-> request, code |-> code,
   body |-> body]

NoResponse == Response("none", "none", [none |-> TRUE], 0, [status |-> "none"])

\* ------------------------------------------- PoisonEngine.apply_poison: inputs

\* The most PGD iterations followed for one call.
MaxIters == 3

\* Pixel values and perturbations are counted in units of 1/255.
Unit == 255

\* The config as apply_poison reads it: the keys present and their values.
\* epsilon is in units of 1/255; alpha is the strength the watermark codec
\* reads under the same key.
EngineConfig(keys, intensity, epsilon, steps, alpha) ==
  [keys |-> keys, intensity |-> intensity, epsilon |-> epsilon,
   steps |-> steps, alpha |-> alpha]

NoConfig == EngineConfig({}, "", 0, 0, 0)

\* Configs that vary the intensity and the presence of each override.
ParamConfigs ==
  {[EngineConfig({}, intensity, 2, 1, 3) EXCEPT !.keys =
      {k \in {"intensity", "epsilon", "steps", "alpha"} :
         \/ k = "intensity" /\ intensity # ""
         \/ k = "epsilon" /\ e
         \/ k = "steps" /\ st
         \/ k = "alpha" /\ a}] :
     intensity \in {"", "High", "Low", "Medium", "Extreme"},
     e \in BOOLEAN, st \in BOOLEAN, a \in BOOLEAN}

\* Configs that vary the radius and the number of steps of the loop.
LoopConfigs ==
  {EngineConfig({"intensity", "steps"}, intensity, 0, st, 0) :
     intensity \in {"Low", "High"}, st \in 0..MaxIters}
  \cup {EngineConfig({"intensity", "steps", "epsilon"}, intensity, e, st, 0) :
           intensity \in {"Low", "High"}, e \in {0, 2}, st \in 0..MaxIters}

\* base_work: the pixels of the input at the working resolution.
BaseWorks == {<<0, 255>>, <<1, 254>>, <<128, 3>>}

\* The locals of an apply_poison call.  i_bound: the loop variable i has been
\* assigned.  attempts: the iterations begun (history).  loop_e: the except
\* clause around the loop has caught an exception; failed_at: the iteration
\* that raised it (history).  The weights are in hundredths.
NewEngine(config, base_work) ==
  [pc |-> "settings", config |-> config, base_work |-> base_work,
   delta |-> [k \in DOMAIN base_work |-> 0],
   epsilon |-> 0, alpha_step |-> 0, steps |-> 0,
   w_lpips |-> 0, w_repel |-> 0, w_attract |-> 0,
   i_bound |-> FALSE, i |-> 0, attempts |-> 0,
   loop_e |-> FALSE, failed_at |-> 0,
   data |-> <<>>, metrics_steps |-> 0, exception |-> NoError]

NoEngine == [NewEngine(NoConfig, <<>>) EXCEPT !.pc = "idle"]

\* The most calls followed on one container.
MaxCalls == 2

\* The attributes _ensure_loaded assigns, in the order it assigns them.
LoadOrder ==
  <<"model_clip", "tokenizer_clip", "model_siglip", "tokenizer_siglip",
    "loss_lpips">>

\* A fresh PoisonEngine instance.  attrs: the attributes assigned so far.
\* loads: how many times each was loaded (history).  last: how the latest
\* _ensure_loaded call ended.
NewPoisonEngine ==
  [attrs |-> {}, loads |-> [k \in DOMAIN LoadOrder |-> 0], calls |-> 0,
   last |-> "none"]

\* A fresh VerifierEngine instance.  held: the model sets whose attributes
\* are assigned.  ran, failed: the stages the call in flight has completed
\* and the stage that raised (history).  report: what the latest call
\* returned.
NewVerifier ==
  [pc |-> "idle", held |-> {}, calls |-> 0, ran |-> {}, failed |-> {},
   pixel |-> FALSE, semantic |-> FALSE, report |-> NoReport]

Init ==
  /\ env \in Envs
  /\ job_states = [aid \in ArtworkIds |-> NoEntry]
  /\ job = NoJob
  /\ submit = NoSubmit
  /\ response = NoResponse
  /\ engine = NoEngine
  /\ poison_engine = NewPoisonEngine
  /\ verifier = NewVerifier
  /\ rival = NoJob

\* ------------------------------------------- poisoning: ModelService.process_job

Append1(seq, cond, x) == IF cond THEN Append(seq, x) ELSE seq

\* A faulty except clause, which loses str(e).
process_job_except_drops_text(j, stage, e) ==
  [j EXCEPT !.raised = @ \cup {stage}, !.exception = e,
            !.status_code = "failed", !.pc = "finish"]

\* The except clause of process_job: any exception raised inside the try
\* block ends the job as failed with str(e).
process_job_except(j, stage, e) ==
  [j EXCEPT !.raised = @ \cup {stage}, !.exception = e, !.error_msg = e,
            !.status_code = "failed", !.pc = "finish"]

\* A faulty inner except clause of the verification step, which raises the
\* verifier's exception again.
verify_except_raises(j, ve) ==
  [j EXCEPT !.raised = @ \cup {"verifier_call"}, !.exception = ve,
            !.error_msg = ve, !.status_code = "failed", !.pc = "finish"]

\* The inner except clause of the verification step: the exception of the
\* remote call becomes the report {"error": str(ve)} and the job goes on.
verify_except(j, ve) ==
  [j EXCEPT !.raised = @ \cup {"verifier_call"},
            !.verifier_report = Report("error", ve, FALSE, FALSE, FALSE),
            !.pc = "upload"]

\* job_states[str(req.artwork_id)].update({...}): the lookup returns a copy of
\* the entry (the update of the copy is not written back) and raises KeyError
\* when the entry is gone.
StateLookupFails(j) == ~HasEntry(job_states, j.req.artwork_id)

\* headers of the input download of the poisoning orchestrator
poisoning_get_auth(e) == IF "MODAL_AUTH_TOKEN" \in e THEN "bearer" ELSE "none"

should_verify(req) ==
  req.config.apply_verification \/ req.verify_protection \/ req.is_preview

\* The hash logic: the first path segment of 64 hexadecimal digits, or the
\* SHA-256 of the downloaded bytes.
HexParts(url) ==
  {i \in 1..Len(url) : SegLen(url[i]) = HashLen /\ SegIsHex(url[i])}

upload_hash(url, content) ==
  IF HexParts(url) = {}
    THEN Sha256(content)
    ELSE url[CHOOSE i \in HexParts(url) : \A k \in HexParts(url) : i <= k]

\* f"{req.user_id}/{upload_hash}/protected.png"
poisoning_protected_key(req, content) ==
  <<req.user_id, upload_hash(req.image_url, content), "protected.png">>

\* f"{req.user_id}/{upload_hash}/verified/{name}.png"
verified_key(req, content, name) ==
  <<req.user_id, upload_hash(req.image_url, content), "verified", name>>

select_bucket(req) == IF req.is_preview THEN R2_BUCKET_DEV ELSE R2_BUCKET_PROD

\* f"{os.environ['R2_PUBLIC_URL']}/{key}"
public_url(key) == <<"R2_PUBLIC_URL">> \o key

Running(app, pc) == job.app = app /\ job.pc = pc

\* The first write: status "processing", then the locals.
process_job_start ==
  /\ Running("poisoning", "start")
  /\ job_states' = [job_states EXCEPT ![job.req.artwork_id] =
         [status |-> "processing", artwork_id |-> job.req.artwork_id,
          method |-> "poisoning", message |-> "Initializing..."]]
  /\ job' = [job EXCEPT !.pc = "download", !.writes = Append(@, "processing")]
  /\ UNCHANGED <<poison_engine, verifier, rival, engine, env, submit, response>>

\* "Downloading...": the GET of the input and the check of its status.
\* The .update() call changes the copy the lookup returned, not the store.
process_job_download ==
  /\ Running("poisoning", "download")
  /\ \/ /\ StateLookupFails(job)
        /\ job' = process_job_except(job, "state_lookup",
                                     KeyError(job.req.artwork_id))
     \/ /\ ~StateLookupFails(job)
        /\ LET upd == [job EXCEPT !.last_update = "Downloading...",
                                  !.get_auth = poisoning_get_auth(env)]
           IN  \/ job' = process_job_except(upd, "download",
                                            Error("request failed"))
               \/ \E code \in StatusCodes :
                    LET sent == [upd EXCEPT !.http_status = code]
                    IN  IF code # HTTP_OK
                          THEN job' = process_job_except(sent, "download",
                                                         DownloadFailed(code))
                          ELSE \E c \in Serves(job.req.image_url) :
                                 job' = [sent EXCEPT !.content = c,
                                                     !.pc = "decode"]
  /\ UNCHANGED <<poison_engine, verifier, rival, engine, env, job_states, submit, response>>

\* Image.open, EXIF transpose (its errors are swallowed), alpha split.
process_job_decode ==
  /\ Running("poisoning", "decode")
  /\ IF job.content = Garbage
       THEN job' = process_job_except(job, "decode",
                                      Error("cannot identify image file"))
       ELSE job' = [job EXCEPT
              !.img = [NoImg EXCEPT !.width = job.content.w,
                                    !.height = job.content.h,
                                    !.mode = "RGB"],
              !.alpha = getchannel_A(job.content),
              !.pc = "poison"]
  /\ UNCHANGED <<poison_engine, verifier, rival, engine, env, job_states, submit, response>>

\* @app.cls(... timeout=...) of PoisonEngine and of ModelService, in seconds
PoisonEngine_timeout == 1800

ModelService_timeout == 1200

\* How long a PoisonEngine call runs: a negligible time, or to its ceiling.
EngineDurations == {0, PoisonEngine_timeout}

engine_always(config) == TRUE

\* if req.config.get("apply_poison", True) or
\*    req.config.get("apply_concept_poison", False)
engine_wanted(config) == config.apply_poison \/ config.apply_concept_poison

\* Poison Ivy (GPU): the remote call into PoisonEngine.apply_poison; its
\* exception is logged and raised again.  The orchestrator waits for the
\* call inside its own execution time: when that runs out first, the
\* platform ends the orchestrator where it stands.
process_job_poison ==
  /\ Running("poisoning", "poison")
  /\ IF engine_wanted(job.req.config)
       THEN \/ /\ StateLookupFails(job)
               /\ job' = process_job_except(job, "state_lookup",
                                            KeyError(job.req.artwork_id))
            \/ /\ ~StateLookupFails(job)
               /\ \E d \in EngineDurations :
                    LET called == [job EXCEPT
                          !.last_update =
                             "Generating adversarial noise (GPU)...",
                          !.trace = Append(@, "engine_call"),
                          !.engine_seconds = d]
                    IN  IF job.elapsed + d >= ModelService_timeout
                          THEN job' = [called EXCEPT
                                 !.elapsed = ModelService_timeout,
                                 !.pc = "killed"]
                        ELSE IF d >= PoisonEngine_timeout
                          THEN job' = process_job_except(
                                 [called EXCEPT !.elapsed = @ + d],
                                 "poison", Error("FunctionTimeoutError"))
                        ELSE \/ job' = process_job_except(called, "poison",
                                         Error("PoisonEngine failed"))
                             \/ job' = [called EXCEPT
                                  !.trace = Append(@, "engine_return"),
                                  !.img.layers = Append(@, "poison"),
                                  !.verifier_report =
                                     Report("metrics", NoError, FALSE, FALSE,
                                            FALSE),
                                  !.applied_methods =
                                     Append1(Append1(@,
                                               job.req.config.apply_poison,
                                               "poison_ivy"),
                                             job.req.config.apply_concept_poison,
                                             "concept_cloak"),
                                  !.pc = "watermark"]
       ELSE job' = [job EXCEPT !.pc = "watermark"]
  /\ UNCHANGED <<poison_engine, verifier, rival, engine, env, job_states, submit, response>>

\* key = req.config.get("secret_key") or str(uuid.uuid4())
watermark_key_of(config) ==
  IF config.secret_key # "null" THEN config.secret_key ELSE "uuid4"

\* Watermarks (CPU): apply_ssw_watermark is called outside any inner try.
process_job_watermark ==
  /\ Running("poisoning", "watermark")
  /\ IF job.req.config.apply_watermark
       THEN \/ /\ StateLookupFails(job)
               /\ job' = process_job_except(job, "state_lookup",
                                            KeyError(job.req.artwork_id))
            \/ /\ ~StateLookupFails(job)
               /\ LET called == [job EXCEPT
                        !.last_update = "Injecting invisible watermark...",
                        !.watermark_key = watermark_key_of(job.req.config),
                        !.trace = Append(@, "apply_ssw_watermark")]
                  IN  \/ job' = process_job_except(called, "watermark",
                                  Error("apply_ssw_watermark failed"))
                      \/ job' = [called EXCEPT
                           !.img.layers = Append(@, "ssw"),
                           !.img.ssw_key = called.watermark_key,
                           !.applied_methods = Append(@, "ai_watermark"),
                           !.pc = "visual"]
       ELSE job' = [job EXCEPT !.pc = "visual"]
  /\ UNCHANGED <<poison_engine, verifier, rival, engine, env, job_states, submit, response>>

process_job_visual ==
  /\ Running("poisoning", "visual")
  /\ IF job.req.config.apply_visual_watermark
       THEN LET called == [job EXCEPT
                  !.trace = Append(@, "apply_visual_watermark")]
            IN  \/ job' = process_job_except(called, "visual",
                            Error("apply_visual_watermark failed"))
                \/ job' = [called EXCEPT
                     !.img.layers = Append(@, "visual"),
                     !.applied_methods = Append(@, "visual_watermark"),
                     !.pc = "alpha"]
       ELSE job' = [job EXCEPT !.pc = "alpha"]
  /\ UNCHANGED <<poison_engine, verifier, rival, engine, env, job_states, submit, response>>

\* Alpha rejoin: putalpha makes the image RGBA again.
process_job_alpha ==
  /\ Running("poisoning", "alpha")
  /\ IF job.alpha # NoAlpha
       THEN \/ job' = process_job_except(job, "alpha", Error("putalpha failed"))
            \/ job' = [job EXCEPT !.img = putalpha(@, job.alpha),
                                  !.pc = "verify"]
       ELSE job' = [job EXCEPT !.pc = "verify"]
  /\ UNCHANGED <<poison_engine, verifier, rival, engine, env, job_states, submit, response>>

\* score > 2.0 for the correlation of the image with the mask of the key
detect_ssw_watermark(img, key) == img.ssw_key = key

\* --- 0. Watermark Detection (CPU) --- of verify_protection
watermark_audit(img, config) ==
  IF config.secret_key = "null" THEN NoAudit
  ELSE [detected |-> detect_ssw_watermark(img, config.secret_key),
        key |-> config.secret_key]

verifier_input_undressed(j) == [j.img EXCEPT !.layers = <<>>]

\* the PNG of current_img that goes to VerifierEngine().verify_protection
verifier_input(j) == j.img

\* Verification step: skipped with a warning when nothing was applied;
\* otherwise the remote call into VerifierEngine.verify_protection with
\* config=req.config, whose exception is recorded in the report and not
\* raised again.
process_job_verify ==
  /\ Running("poisoning", "verify")
  /\ IF ~should_verify(job.req)
       THEN job' = [job EXCEPT !.pc = "upload"]
     ELSE IF job.applied_methods = <<>>
       THEN job' = [job EXCEPT
              !.error_msg = VerificationIgnored,
              !.verifier_report =
                 Report("skipped", VerificationIgnored, FALSE, FALSE, FALSE),
              !.pc = "upload"]
     ELSE \/ /\ StateLookupFails(job)
             /\ job' = process_job_except(job, "state_lookup",
                                          KeyError(job.req.artwork_id))
          \/ /\ ~StateLookupFails(job)
             /\ LET upd == [job EXCEPT
                      !.last_update = "Running Verification Audit..."]
                    called == [upd EXCEPT
                      !.verifier_img = verifier_input(job),
                      !.trace = Append(@, "verifier_call")]
                IN  \/ job' = process_job_except(upd, "encode",
                                                 Error("PNG encode failed"))
                    \/ job' = verify_except(called,
                                            Error("verifier call failed"))
                    \/ \E r \in VerifierReturns :
                         job' = [called EXCEPT
                           !.verifier_report =
                              IF r.kind = "audit"
                                THEN [r EXCEPT !.watermark_audit =
                                        watermark_audit(called.verifier_img,
                                                        job.req.config)]
                                ELSE r,
                           !.applied_methods = Append(@, "verification_audit"),
                           !.pc = "upload"]
  /\ UNCHANGED <<poison_engine, verifier, rival, engine, env, job_states, submit, response>>

\* Upload: PNG encode, bucket, hash logic, key, put_object of the protected
\* output.  protected_key is assigned before the put is made.
process_job_upload ==
  /\ Running("poisoning", "upload")
  /\ LET key == poisoning_protected_key(job.req, job.content)
         keyed == [job EXCEPT !.protected_key = key,
                              !.trace = Append(@, "png_encode")]
         put == [keyed EXCEPT !.trace = Append(@, "put_object")]
     IN  \/ job' = process_job_except(job, "encode", Error("PNG encode failed"))
         \/ job' = process_job_except(
                     [put EXCEPT !.puts =
                        Append(@, Put(select_bucket(job.req), key, job.img, FALSE))],
                     "upload", Error("put_object failed"))
         \/ job' = [put EXCEPT
              !.puts = Append(@, Put(select_bucket(job.req), key, job.img, TRUE)),
              !.pc = "artifacts"]
  /\ UNCHANGED <<poison_engine, verifier, rival, engine, env, job_states, submit, response>>

\* The verification artifacts the report carries, in upload order.
ArtifactNames(r) ==
  SelectSeq(<<"pixel", "sdxl", "semantic">>,
            LAMBDA n : \/ n = "pixel" /\ r.pixel
                       \/ n = "sdxl" /\ r.sdxl
                       \/ n = "semantic" /\ r.semantic)

RECURSIVE ArtifactPuts(_, _, _)
ArtifactPuts(j, names, failing) ==
  IF names = <<>> THEN <<>>
  ELSE <<Put(select_bucket(j.req),
             verified_key(j.req, j.content, Head(names)),
             NoImg, Head(names) \notin failing)>>
       \o ArtifactPuts(j, Tail(names), failing)

\* Modified variants: each mimicry image the report carries is popped and
\* uploaded inside its own try block; then the job is marked completed.
process_job_artifacts ==
  /\ Running("poisoning", "artifacts")
  /\ LET names == IF job.verifier_report.kind = "audit"
                    THEN ArtifactNames(job.verifier_report) ELSE <<>>
         all == {names[i] : i \in 1..Len(names)}
     IN  \E failing \in SUBSET all :
           job' = [job EXCEPT
             !.puts = @ \o ArtifactPuts(job, names, failing),
             !.trace = @ \o [i \in 1..Len(names) |-> "put_object"],
             !.raised = @ \cup {"artifact_" \o n : n \in failing},
             !.verifier_report =
                [@ EXCEPT !.pixel = FALSE, !.sdxl = FALSE, !.semantic = FALSE,
                          !.keys = all \ failing],
             !.protected_url = public_url(job.protected_key),
             !.status_code = "completed",
             !.file_meta = [width |-> job.img.width, height |-> job.img.height],
             !.pc = "finish"]
  /\ UNCHANGED <<poison_engine, verifier, rival, engine, env, job_states, submit, response>>

\* The result, the last write to the state map, and the return.
process_job_result(j) ==
  ProtectionResult(j.req.artwork_id, j.status_code, j.req.image_url,
                   j.protected_url, j.protected_key, j.file_meta, j.error_msg,
                   j.applied_methods, j.verifier_report)

process_job_finish ==
  /\ Running("poisoning", "finish")
  /\ job' = [job EXCEPT !.result = process_job_result(job), !.pc = "done",
                        !.writes = Append(@, job.status_code)]
  /\ job_states' = [job_states EXCEPT ![job.req.artwork_id] =
         [status |-> job.status_code, result |-> process_job_result(job),
          error |-> job.error_msg]]
  /\ UNCHANGED <<poison_engine, verifier, rival, engine, env, submit, response>>

\* ------------------------------------------------------ poisoning: endpoints

EnvGet(e, name) == IF name \in e THEN Token ELSE ""

\* The part of a submit request the endpoints read before the spawn.
SubmitRequest(req, cred) ==
  [credentials |-> cred, method |-> req.method, artwork_id |-> req.artwork_id]

StatusRequest(artwork_ids, ack_ids, cred) ==
  [credentials |-> cred, artwork_ids |-> artwork_ids, ack_ids |-> ack_ids]

Unauthorized == [detail |-> "Unauthorized"]

Queued(aid, jid) == [status |-> "queued", job_id |-> jid, artwork_id |-> aid]

\* call.object_id of the spawned function call
ObjectId == "fc-1"

\* The submit requests sent to the poisoning app: every request with the
\* configured token, one request with each other credential.
RejectedRequest ==
  ProtectionRequest(ProxyUrl, "art1", "u1", "poisoning",
                    Config(TRUE, FALSE, FALSE, FALSE, MaxSide), FALSE, FALSE)

PoisoningSubmits ==
  {<<req, Token>> : req \in PoisoningRequests}
  \cup {<<RejectedRequest, cred>> : cred \in Credentials \ {Token}}

\* POST submit-protection-job of the poisoning app.  The client sends one
\* submit request at a time and none while a job is in flight.
process ==
  /\ job = NoJob
  /\ submit = NoSubmit
  /\ \E s \in PoisoningSubmits :
    LET req == s[1]
        cred == s[2]
    IN  IF Strip(cred) # Strip(EnvGet(env, "MODAL_AUTH_TOKEN"))
          THEN /\ response' = Response("submit", "poisoning",
                                       SubmitRequest(req, cred),
                                       HTTP_401_UNAUTHORIZED, Unauthorized)
               /\ UNCHANGED <<poison_engine, verifier, rival, engine, env, job_states, job, submit>>
          ELSE /\ job' = NewJob("poisoning", req)
               /\ response' = Response("submit", "poisoning",
                                       SubmitRequest(req, cred),
                                       HTTP_OK, Queued(req.artwork_id, ObjectId))
               /\ UNCHANGED <<poison_engine, verifier, rival, engine, env, job_states, submit>>

\* The check-status requests sent: the submitted artwork id asked for,
\* acknowledged or not, and all ids asked for and acknowledged; with the
\* configured token, and one of them with each other credential.
StatusQueries ==
  {<<{"art1"}, {}>>, <<{"art1"}, {"art1"}>>, <<ArtworkIds, ArtworkIds>>}

StatusRequests ==
  {StatusRequest(q[1], q[2], Token) : q \in StatusQueries}
  \cup {StatusRequest({"art1"}, {"art1"}, cred) : cred \in Credentials \ {Token}}

\* POST check-status of the poisoning app: the entries are read first and
\* the acknowledged ones are deleted afterwards.
poisoning_check_status(states, artwork_ids, ack_ids) ==
  LET results == [aid \in {a \in artwork_ids : HasEntry(states, a)} |-> states[aid]]
      after == [aid \in ArtworkIds |->
                  IF aid \in ack_ids THEN NoEntry ELSE states[aid]]
  IN  [results |-> results, states |-> after]

\* The client polls the app it has submitted its job to.
check_status_poisoning ==
  /\ job.app \in {"poisoning", "none", "legacy"}
  /\ \E r \in StatusRequests :
    IF Strip(r.credentials) # Strip(EnvGet(env, "MODAL_AUTH_TOKEN"))
      THEN /\ response' = Response("check_status", "poisoning", r,
                                   HTTP_401_UNAUTHORIZED, Unauthorized)
           /\ UNCHANGED <<poison_engine, verifier, rival, engine, env, job_states, job, submit>>
      ELSE LET out == poisoning_check_status(job_states, r.artwork_ids, r.ack_ids)
           IN  /\ response' = Response("check_status", "poisoning", r,
                                       HTTP_OK, out.results)
               /\ job_states' = out.states
               /\ UNCHANGED <<poison_engine, verifier, rival, engine, env, job, submit>>

\* ------------------------------- mist, grayscale, watermark, legacy: workers

\* The apps whose worker is <App>.process_job with the download / process /
\* upload structure of mist/main.py.
WorkerApps == {"mist", "grayscale", "watermark"}

\* headers of the input download: the token is attached for the asset proxy.
MatchesAssets(url) ==
  \E i \in 1..(Len(url) - 2) : url[i] = "api" /\ url[i + 1] = "assets"

worker_get_auth(e, url) ==
  IF MatchesAssets(url) /\ ("AUTH_TOKEN" \in e \/ "MODAL_AUTH_TOKEN" \in e)
    THEN "bearer" ELSE "none"

\* headers of the input download of MistProcessor
legacy_get_auth(e) == IF "AUTH_TOKEN" \in e THEN "bearer" ELSE "none"

\* r.raise_for_status(): HTTPError for 4xx and 5xx.
raise_for_status(code) == code >= 400 /\ code < 600

\* os.path.basename(os.path.dirname(urlparse(url).path))
image_hash(url) == IF Len(url) >= 2 THEN url[Len(url) - 1] ELSE ""

\* The output key of each worker (the last assignment made to output_key).
worker_output_key(app, req, content) ==
  CASE app = "mist" -> <<req.user_id, image_hash(req.image_url), "protected.png">>
    [] app = "grayscale" -> <<image_hash(req.image_url), "protected.png">>
    [] app = "watermark" -> <<image_hash(req.image_url), "watermark.png">>
    [] app = "legacy" -> <<"protected", "output-" \o Sha256(content)>>

R2_BUCKET == "drimit-shield-bucket"

worker_bucket(app, req) ==
  IF app = "legacy" THEN R2_BUCKET ELSE select_bucket(req)

\* f"{app_url}/api/assets/{output_key}", or the R2 public URL
worker_protected_url(app, key) ==
  IF app \in {"mist", "grayscale"}
    THEN <<"APP_URL", "api", "assets">> \o key
    ELSE public_url(key)

\* The except clause of the workers.
worker_except(j, stage, e) ==
  [j EXCEPT !.raised = @ \cup {stage}, !.exception = e, !.error_msg = e,
            !.status_code = "failed", !.protected_key = NoKey, !.pc = "finish"]

\* Track state: PROCESSING (MistProcessor keeps no state).
worker_start ==
  /\ job.app \in WorkerApps \cup {"legacy"}
  /\ job.pc = "start"
  /\ job_states' =
       IF job.app = "legacy" THEN job_states
       ELSE [job_states EXCEPT ![job.req.artwork_id] =
               [status |-> "processing", artwork_id |-> job.req.artwork_id,
                method |-> job.app]]
  /\ job' = [job EXCEPT !.pc = "download",
                        !.writes = IF job.app = "legacy" THEN @
                                   ELSE Append(@, "processing")]
  /\ UNCHANGED <<poison_engine, verifier, rival, engine, env, submit, response>>

\* 1. Download Input Image
worker_download ==
  /\ job.app \in WorkerApps \cup {"legacy"}
  /\ job.pc = "download"
  /\ LET auth == IF job.app = "legacy" THEN legacy_get_auth(env)
                 ELSE worker_get_auth(env, job.req.image_url)
     IN  \/ job' = worker_except([job EXCEPT !.get_auth = auth],
                                 "download", Error("request failed"))
         \/ \E code \in StatusCodes :
              LET sent == [job EXCEPT !.get_auth = auth, !.http_status = code]
                  fails == IF job.app = "legacy" THEN raise_for_status(code)
                           ELSE code # HTTP_OK
                  msg == IF job.app = "legacy"
                           THEN [text |-> "Client or Server Error for url",
                                 code |-> code]
                           ELSE DownloadMessageFailed(code)
              IN  IF fails
                    THEN job' = worker_except(sent, "download", msg)
                  ELSE IF code = HTTP_OK
                    THEN \E c \in Serves(job.req.image_url) :
                           job' = [sent EXCEPT !.content = c, !.pc = "process"]
                  ELSE job' = [sent EXCEPT !.content = Garbage, !.pc = "process"]
  /\ UNCHANGED <<poison_engine, verifier, rival, engine, env, job_states, submit, response>>

\* Max dim check of MistApp and MistProcessor: the longer side is brought
\* down to max_dim, the other side in proportion (int() truncates).
max_dim == 1280

Longer(w, h) == IF w >= h THEN w ELSE h

max_dim_check(app, w, h) ==
  IF app \in {"mist", "legacy"} /\ Longer(w, h) > max_dim
    THEN [width |-> (w * max_dim) \div Longer(w, h),
          height |-> (h * max_dim) \div Longer(w, h)]
    ELSE [width |-> w, height |-> h]

\* 2./3. Decode and run the protection (Mist attack, grayscale, overlay).
worker_process ==
  /\ job.app \in WorkerApps \cup {"legacy"}
  /\ job.pc = "process"
  /\ IF job.content = Garbage
       THEN job' = worker_except(job, "decode", Error("cannot identify image file"))
       ELSE \/ job' = worker_except(job, "process", Error("protection failed"))
            \/ job' = [job EXCEPT
                 !.img = [NoImg EXCEPT
                    !.width = max_dim_check(job.app, job.content.w,
                                            job.content.h).width,
                    !.height = max_dim_check(job.app, job.content.w,
                                             job.content.h).height,
                    !.mode = IF job.app = "grayscale" THEN "L" ELSE "RGB"],
                 !.pc = "upload"]
  /\ UNCHANGED <<poison_engine, verifier, rival, engine, env, job_states, submit, response>>

\* Upload of the output and the completed result.
worker_upload ==
  /\ job.app \in WorkerApps \cup {"legacy"}
  /\ job.pc = "upload"
  /\ LET key == worker_output_key(job.app, job.req, job.content)
         bucket == worker_bucket(job.app, job.req)
     IN  \/ job' = worker_except(
                     [job EXCEPT !.puts = Append(@, Put(bucket, key, job.img, FALSE))],
                     "upload", Error("put_object failed"))
         \/ job' = [job EXCEPT
              !.puts = Append(@, Put(bucket, key, job.img, TRUE)),
              !.protected_key = key,
              !.protected_url = worker_protected_url(job.app, key),
              !.file_meta = [width |-> job.img.width, height |-> job.img.height],
              !.status_code = "completed",
              !.pc = "finish"]
  /\ UNCHANGED <<poison_engine, verifier, rival, engine, env, job_states, submit, response>>

worker_result(j) ==
  ProtectionResult(j.req.artwork_id, j.status_code, j.req.image_url,
                   j.protected_url, j.protected_key, j.file_meta, j.error_msg,
                   <<>>, NoReport)

worker_finish_unwritten ==
  /\ job.app \in WorkerApps \cup {"legacy"}
  /\ job.pc = "finish"
  /\ job' = [job EXCEPT !.result = worker_result(job), !.pc = "done"]
  /\ UNCHANGED <<poison_engine, verifier, rival, engine, env, job_states, submit, response>>

\* Track state: COMPLETED / FAILED, and the return.
worker_finish ==
  /\ job.app \in WorkerApps \cup {"legacy"}
  /\ job.pc = "finish"
  /\ job' = [job EXCEPT !.result = worker_result(job), !.pc = "done",
                        !.writes = IF job.app = "legacy" THEN @
                                   ELSE Append(@, job.status_code)]
  /\ job_states' =
       IF job.app = "legacy" THEN job_states
       ELSE [job_states EXCEPT ![job.req.artwork_id] =
               IF job.status_code = "completed"
                 THEN [status |-> "completed", result |-> worker_result(job)]
                 ELSE [status |-> "failed", error |-> job.error_msg]]
  /\ UNCHANGED <<poison_engine, verifier, rival, engine, env, submit, response>>

\* ----------------------------- mist, grayscale, watermark, legacy: endpoints

\* POST check_status of the mist, grayscale and watermark apps: the
\* acknowledged entries are popped first, the status check comes second.
worker_check_status(states, artwork_ids, ack_ids) ==
  LET after == [aid \in ArtworkIds |->
                  IF aid \in ack_ids THEN NoEntry ELSE states[aid]]
      results == [aid \in artwork_ids |->
                    IF HasEntry(after, aid) THEN after[aid]
                    ELSE [status |-> "unknown", artwork_id |-> aid]]
  IN  [results |-> results, states |-> after]

\* The client polls the app it has submitted its job to.
check_status(app) ==
  /\ app \in WorkerApps
  /\ job.app \in {app, "none", "legacy"}
  /\ \E q \in StatusQueries :
       LET out == worker_check_status(job_states, q[1], q[2])
       IN  /\ response' = Response("check_status", app,
                                   StatusRequest(q[1], q[2], "none"),
                                   HTTP_OK, out.results)
           /\ job_states' = out.states
           /\ UNCHANGED <<poison_engine, verifier, rival, engine, env, job, submit>>

\* What submit_protection_job decides before it spawns: "disabled" (the
\* method check of the mist app), "error" (os.environ["AUTH_TOKEN"] raises
\* KeyError), "unauthorized" or "spawn".
submit_decision(app, e, req, cred) ==
  IF app = "mist" /\ req.method = "watermark" THEN "disabled"
  ELSE IF "AUTH_TOKEN" \notin e THEN "error"
  ELSE IF cred # EnvGet(e, "AUTH_TOKEN") THEN "unauthorized"
  ELSE "spawn"

MethodDisabled ==
  [status |-> "failed", message |-> "Watermark method disabled in monolithic mode"]

QueuedEntry(app, jid) ==
  IF app = "mist" THEN [status |-> "queued", job_id |-> jid]
  ELSE [status |-> "queued", job_id |-> jid, method |-> app]

\* The submit requests sent to these apps: every request with the configured
\* token, one request of each method with each other credential.
WorkerSubmits ==
  {<<req, Token>> : req \in WorkerRequests}
  \cup {<<WorkerRequest(ProxyUrl, "u1", m, FALSE), cred>> :
          m \in Methods, cred \in Credentials \ {Token}}

\* POST submit_protection_job up to the spawn.  The mist, grayscale and
\* watermark apps write the "queued" entry before they spawn and go on in
\* submit_read; MistProcessor's endpoint answers right after the spawn.
\* The client sends one submit request at a time and none while a job is in
\* flight.
submit_protection_job(app) ==
  /\ app \in WorkerApps \cup {"legacy"}
  /\ job = NoJob
  /\ submit = NoSubmit
  /\ \E s \in WorkerSubmits :
       LET req == s[1]
           cred == s[2]
           d == submit_decision(app, env, req, cred)
           answer(code, body) ==
             Response("submit", app, SubmitRequest(req, cred), code, body)
       IN  CASE d = "disabled" ->
                  /\ response' = answer(HTTP_OK, MethodDisabled)
                  /\ UNCHANGED <<poison_engine, verifier, rival, engine, env, job_states, job, submit>>
             [] d = "error" ->
                  /\ response' = answer(HTTP_500, [detail |-> "Internal Server Error"])
                  /\ UNCHANGED <<poison_engine, verifier, rival, engine, env, job_states, job, submit>>
             [] d = "unauthorized" ->
                  /\ response' = answer(HTTP_401_UNAUTHORIZED,
                                        [detail |-> "Incorrect bearer token"])
                  /\ UNCHANGED <<poison_engine, verifier, rival, engine, env, job_states, job, submit>>
             [] d = "spawn" ->
                  /\ job' = NewJob(app, req)
                  /\ IF app = "legacy"
                       THEN /\ response' = answer(HTTP_OK,
                                                  Queued(req.artwork_id, ObjectId))
                            /\ UNCHANGED <<poison_engine, verifier, rival, engine, env, job_states, submit>>
                       ELSE /\ job_states' = [job_states EXCEPT ![req.artwork_id] =
                                                QueuedEntry(app, "pending-spawn")]
                            /\ submit' = [app |-> app, pc |-> "read",
                                          request |-> SubmitRequest(req, cred),
                                          current_state |-> NoEntry]
                            /\ UNCHANGED <<poison_engine, verifier, rival, engine, env, response>>

\* current_state = job_states[str(req.artwork_id)]; a missing entry raises
\* KeyError, which the endpoint turns into HTTP 500 "Spawn failed".
submit_read ==
  /\ submit.pc = "read"
  /\ IF HasEntry(job_states, submit.request.artwork_id)
       THEN /\ submit' = [submit EXCEPT
                   !.pc = "write",
                   !.current_state = job_states[submit.request.artwork_id]]
            /\ UNCHANGED <<poison_engine, verifier, rival, engine, env, job_states, job, response>>
       ELSE /\ submit' = NoSubmit
            /\ response' = Response("submit", submit.app, submit.request,
                                    HTTP_500, [detail |-> "Spawn failed"])
            /\ UNCHANGED <<poison_engine, verifier, rival, engine, env, job_states, job>>

SetJobId(state, jid) ==
  [f \in DOMAIN state \cup {"job_id"} |-> IF f = "job_id" THEN jid ELSE state[f]]

\* current_state["job_id"] = call.object_id; the entry is written back and
\* the endpoint answers "queued".
submit_write ==
  /\ submit.pc = "write"
  /\ job_states' = [job_states EXCEPT ![submit.request.artwork_id] =
                      SetJobId(submit.current_state, ObjectId)]
  /\ response' = Response("submit", submit.app, submit.request, HTTP_OK,
                          Queued(submit.request.artwork_id, ObjectId))
  /\ submit' = NoSubmit
  /\ UNCHANGED <<poison_engine, verifier, rival, engine, env, job>>

\* ---------------------------------------------- PoisonEngine.apply_poison

\* config.get("intensity", "Medium")
config_get_intensity(config) ==
  IF "intensity" \in config.keys THEN config.intensity ELSE "Medium"

\* Intensity Settings: epsilon and alpha_step in units of 1/255, the weights
\* in hundredths.
IntensitySettings(intensity) ==
  IF intensity = "High"
    THEN [epsilon |-> 80, alpha_step |-> 4, steps |-> 600,
          w_lpips |-> 0, w_repel |-> 1500, w_attract |-> 1000]
  ELSE IF intensity = "Low"
    THEN [epsilon |-> 6, alpha_step |-> 1, steps |-> 50,
          w_lpips |-> 500, w_repel |-> 100, w_attract |-> 100]
  ELSE [epsilon |-> 32, alpha_step |-> 2, steps |-> 200,
        w_lpips |-> 1, w_repel |-> 200, w_attract |-> 200]

\* if "epsilon" in config: epsilon = config["epsilon"]
pgd_epsilon(config, preset) ==
  IF "epsilon" \in config.keys THEN config.epsilon ELSE preset.epsilon

\* if "steps" in config: steps = config["steps"]
pgd_steps(config, preset) ==
  IF "steps" \in config.keys THEN config.steps ELSE preset.steps

pgd_alpha_step_from_config(config, preset) ==
  IF "alpha" \in config.keys THEN config.alpha ELSE preset.alpha_step

\* alpha_step is set by the intensity alone.
pgd_alpha_step(config, preset) == preset.alpha_step

\* The settings the loop runs with.
apply_poison_settings ==
  /\ engine.pc = "settings"
  /\ LET preset == IntensitySettings(config_get_intensity(engine.config))
     IN  engine' = [engine EXCEPT
           !.epsilon = pgd_epsilon(engine.config, preset),
           !.alpha_step = pgd_alpha_step(engine.config, preset),
           !.steps = pgd_steps(engine.config, preset),
           !.w_lpips = preset.w_lpips,
           !.w_repel = preset.w_repel,
           !.w_attract = preset.w_attract,
           !.pc = "loop"]
  /\ UNCHANGED <<poison_engine, verifier, rival, env, job_states, job, submit, response>>

Min(a, b) == IF a < b THEN a ELSE b

Max(a, b) == IF a > b THEN a ELSE b

\* torch.clamp(x, lo, hi)
clamp(x, lo, hi) == Min(Max(x, lo), hi)

\* delta.grad.sign(): one sign for each element
Grads(n) == [1..n -> {-1, 0, 1}]

\* delta.data = delta.data - alpha_step * grad
pgd_step(delta, grad, alpha_step) ==
  [k \in DOMAIN delta |-> delta[k] - alpha_step * grad[k]]

\* Projection (Epsilon Ball)
epsilon_ball(delta, epsilon) ==
  [k \in DOMAIN delta |-> clamp(delta[k], -epsilon, epsilon)]

valid_range_skipped(delta, base_work) == delta

\* Valid Image Range: torch.max(torch.min(delta, 1 - base_work), -base_work)
valid_range(delta, base_work) ==
  [k \in DOMAIN delta |->
     Max(Min(delta[k], Unit - base_work[k]), -base_work[k])]

\* One pass of the body of the PGD loop.  The try statement encloses the
\* whole for loop: an exception raised by the loss or by backward() is
\* caught outside the loop, which is thereby left.
apply_poison_iteration ==
  /\ engine.pc = "loop"
  /\ engine.attempts < engine.steps
  /\ engine.attempts < MaxIters
  /\ LET entered == [engine EXCEPT !.i_bound = TRUE, !.i = engine.attempts,
                                   !.attempts = @ + 1]
     IN  \/ engine' = [entered EXCEPT !.loop_e = TRUE,
                                      !.failed_at = entered.i,
                                      !.pc = "finish"]
         \/ \E grad \in Grads(Len(engine.base_work)) :
              engine' = [entered EXCEPT !.delta =
                valid_range(
                  epsilon_ball(pgd_step(@, grad, engine.alpha_step),
                               engine.epsilon),
                  engine.base_work)]
  /\ UNCHANGED <<poison_engine, verifier, rival, env, job_states, job, submit, response>>

\* range(steps) is exhausted.
apply_poison_loop_end ==
  /\ engine.pc = "loop"
  /\ engine.attempts >= engine.steps
  /\ engine' = [engine EXCEPT !.pc = "finish"]
  /\ UNCHANGED <<poison_engine, verifier, rival, env, job_states, job, submit, response>>

\* final_tensor = clamp(base + delta, 0, 1), the PNG, and the metrics, which
\* read the loop variable i: when no iteration was entered, i is unbound and
\* the read raises UnboundLocalError, which the outer except clause raises
\* again.
apply_poison_return ==
  /\ engine.pc = "finish"
  /\ IF engine.i_bound
       THEN engine' = [engine EXCEPT
              !.data = [k \in DOMAIN engine.base_work |->
                          clamp(engine.base_work[k] + engine.delta[k], 0, Unit)],
              !.metrics_steps = engine.i,
              !.pc = "returned"]
       ELSE engine' = [engine EXCEPT
              !.exception = Error("UnboundLocalError: i"),
              !.pc = "raised"]
  /\ UNCHANGED <<poison_engine, verifier, rival, env, job_states, job, submit, response>>

\* The calls of apply_poison followed: one per behaviour.
EngineCalls ==
  {NewEngine(config, <<128, 3>>) : config \in ParamConfigs}
  \cup {NewEngine(config, base_work) :
          config \in LoopConfigs, base_work \in BaseWorks}

InitPGD ==
  /\ env \in Envs
  /\ job_states = [aid \in ArtworkIds |-> NoEntry]
  /\ job = NoJob
  /\ submit = NoSubmit
  /\ response = NoResponse
  /\ engine \in EngineCalls
  /\ poison_engine = NewPoisonEngine
  /\ verifier = NewVerifier
  /\ rival = NoJob

NextPGD ==
  \/ apply_poison_settings
  \/ apply_poison_iteration
  \/ apply_poison_loop_end
  \/ apply_poison_return

\* The engine alone, on every call followed.
SpecPGD == InitPGD /\ [][NextPGD]_vars

\* ------------------------------------------------ PoisonEngine._ensure_loaded

\* One call of _ensure_loaded: it returns at once when model_clip is set;
\* otherwise it loads and assigns the attributes in order, and a loader that
\* raises leaves the attributes assigned before it.
ensure_loaded ==
  /\ poison_engine.calls < MaxCalls
  /\ IF "model_clip" \in poison_engine.attrs
       THEN poison_engine' = [poison_engine EXCEPT !.calls = @ + 1,
                                                   !.last = "returned"]
       ELSE \E n \in 0..Len(LoadOrder) :
              poison_engine' = [poison_engine EXCEPT
                !.calls = @ + 1,
                !.attrs = @ \cup {LoadOrder[k] : k \in 1..n},
                !.loads = [k \in DOMAIN LoadOrder |->
                             IF k <= n THEN @[k] + 1 ELSE @[k]],
                !.last = IF n = Len(LoadOrder) THEN "returned" ELSE "raised"]
  /\ UNCHANGED <<env, job_states, job, submit, response, engine, verifier,
                 rival>>

\* ---------------------------------------------- VerifierEngine.verify_protection

\* The except clause of verify_protection: {"error": str(e)} is returned;
\* nothing is unloaded.
verify_protection_except(v, stage) ==
  [v EXCEPT !.failed = @ \cup {stage}, !.pc = "idle",
            !.report = Report("error", Error("verification failed"), FALSE,
                              FALSE, FALSE)]

\* A call arrives at the container.
verify_protection ==
  /\ verifier.pc = "idle"
  /\ verifier.calls < MaxCalls
  /\ verifier' = [verifier EXCEPT !.calls = @ + 1, !.ran = {}, !.failed = {},
                                  !.pixel = FALSE, !.semantic = FALSE,
                                  !.report = NoReport,
                                  !.pc = "load_moondream"]
  /\ UNCHANGED <<env, job_states, job, submit, response, engine,
                 poison_engine, rival>>

\* _load_moondream: the model, then the tokenizer.
verify_load_moondream ==
  /\ verifier.pc = "load_moondream"
  /\ \/ verifier' = verify_protection_except(verifier, "semantic")
     \/ verifier' = verify_protection_except(
                      [verifier EXCEPT !.held = @ \cup {"moondream"}],
                      "semantic")
     \/ verifier' = [verifier EXCEPT !.held = @ \cup {"moondream"},
                                     !.pc = "semantic"]
  /\ UNCHANGED <<env, job_states, job, submit, response, engine,
                 poison_engine, rival>>

\* 1. Semantic Audit, then _unload_moondream.
verify_semantic ==
  /\ verifier.pc = "semantic"
  /\ \/ verifier' = verify_protection_except(verifier, "semantic")
     \/ verifier' = [verifier EXCEPT !.ran = @ \cup {"semantic"},
                                     !.held = @ \ {"moondream"},
                                     !.pc = "load_flux"]
  /\ UNCHANGED <<env, job_states, job, submit, response, engine,
                 poison_engine, rival>>

\* _load_flux raises again what its loader raises, before or after flux_i2i
\* is assigned; the resize of the input that follows is outside any try.
verify_load_flux ==
  /\ verifier.pc = "load_flux"
  /\ \/ verifier' = verify_protection_except(verifier, "flux")
     \/ verifier' = verify_protection_except([verifier EXCEPT !.held = @ \cup {"flux"}],
                                  "flux")
     \/ verifier' = [verifier EXCEPT !.held = @ \cup {"flux"}, !.pc = "flux"]
  /\ UNCHANGED <<env, job_states, job, submit, response, engine,
                 poison_engine, rival>>

\* Flux img2img, then text2img, in one try block; then _unload_flux.
verify_flux ==
  /\ verifier.pc = "flux"
  /\ \E px \in BOOLEAN, sm \in BOOLEAN :
       /\ sm => px
       /\ verifier' = [verifier EXCEPT
            !.pixel = px, !.semantic = sm,
            !.ran = IF px /\ sm THEN @ \cup {"flux"} ELSE @,
            !.failed = IF px /\ sm THEN @ ELSE @ \cup {"flux"},
            !.held = @ \ {"flux"},
            !.pc = "load_sdxl"]
  /\ UNCHANGED <<env, job_states, job, submit, response, engine,
                 poison_engine, rival>>

\* _load_sdxl: a loader that raises leaves sdxl_i2i = None.
verify_load_sdxl ==
  /\ verifier.pc = "load_sdxl"
  /\ \/ verifier' = [verifier EXCEPT !.pc = "sdxl"]
     \/ verifier' = [verifier EXCEPT !.held = @ \cup {"sdxl"}, !.pc = "sdxl"]
  /\ UNCHANGED <<env, job_states, job, submit, response, engine,
                 poison_engine, rival>>

\* SDXL img2img in its try block, _unload_sdxl, and the report.
verify_sdxl ==
  /\ verifier.pc = "sdxl"
  /\ \E sd \in BOOLEAN :
       /\ sd => "sdxl" \in verifier.held
       /\ verifier' = [verifier EXCEPT
            !.ran = IF sd THEN @ \cup {"sdxl"} ELSE @,
            !.failed = IF sd THEN @ ELSE @ \cup {"sdxl"},
            !.held = @ \ {"sdxl"},
            !.report = Report("audit", NoError, verifier.pixel, sd,
                              verifier.semantic),
            !.pc = "idle"]
  /\ UNCHANGED <<env, job_states, job, submit, response, engine,
                 poison_engine, rival>>

NextContainers ==
  \/ ensure_loaded
  \/ verify_protection
  \/ verify_load_moondream
  \/ verify_semantic
  \/ verify_load_flux
  \/ verify_flux
  \/ verify_load_sdxl
  \/ verify_sdxl

\* One PoisonEngine container and one VerifierEngine container, each taking
\* calls one after the other.
SpecContainers == Init /\ [][NextContainers]_vars

\* ------------------------------------- two invocations for one artwork id

\* Track state: PROCESSING, as written by the second invocation.
rival_start ==
  /\ rival.pc = "start"
  /\ job_states' = [job_states EXCEPT ![rival.req.artwork_id] =
       IF rival.app = "poisoning"
         THEN [status |-> "processing", artwork_id |-> rival.req.artwork_id,
               method |-> "poisoning", message |-> "Initializing..."]
         ELSE [status |-> "processing", artwork_id |-> rival.req.artwork_id,
               method |-> rival.app]]
  /\ rival' = [rival EXCEPT !.pc = "finish",
                            !.writes = Append(@, "processing")]
  /\ UNCHANGED <<env, job, submit, response, engine, poison_engine, verifier>>

\* The second invocation ends one way or the other and makes its last
\* write: the whole entry is replaced.
rival_finish ==
  /\ rival.pc = "finish"
  /\ \E failed \in BOOLEAN :
       LET ended == IF failed
                      THEN [rival EXCEPT !.status_code = "failed",
                                         !.error_msg = Error("request failed")]
                      ELSE [rival EXCEPT !.status_code = "completed"]
           result == IF rival.app = "poisoning"
                       THEN process_job_result(ended)
                       ELSE worker_result(ended)
       IN  /\ rival' = [ended EXCEPT !.result = result, !.pc = "done",
                                     !.writes = Append(@, ended.status_code)]
           /\ job_states' = [job_states EXCEPT ![rival.req.artwork_id] =
                IF rival.app = "poisoning"
                  THEN [status |-> ended.status_code, result |-> result,
                        error |-> ended.error_msg]
                ELSE IF failed
                  THEN [status |-> "failed", error |-> ended.error_msg]
                  ELSE [status |-> "completed", result |-> result]]
  /\ UNCHANGED <<env, job, submit, response, engine, poison_engine, verifier>>

\* Two invocations spawned for the same artwork id, job first and rival
\* after it, by the poisoning app or by the poisoning and the mist app.
InitRace ==
  /\ env \in Envs
  /\ job_states = [aid \in ArtworkIds |-> NoEntry]
  /\ job \in {NewJob("poisoning", req) : req \in VerifyRequests}
  /\ rival \in {NewJob(app, [WorkerRequest(ExternalUrl, "u2", app, FALSE)
                               EXCEPT !.artwork_id = job.req.artwork_id]) :
                  app \in {"poisoning", "mist"}}
  /\ submit = NoSubmit
  /\ response = NoResponse
  /\ engine = NoEngine
  /\ poison_engine = NewPoisonEngine
  /\ verifier = NewVerifier

NextRace ==
  \/ process_job_start
  \/ process_job_download
  \/ process_job_decode
  \/ process_job_poison
  \/ process_job_watermark
  \/ process_job_visual
  \/ process_job_alpha
  \/ process_job_verify
  \/ process_job_upload
  \/ process_job_artifacts
  \/ process_job_finish
  \/ rival_start
  \/ rival_finish

SpecRace == InitRace /\ [][NextRace]_vars

\* The poisoning app: its two endpoints and its orchestrator.
Next ==
  \/ process
  \/ check_status_poisoning
  \/ process_job_start
  \/ process_job_download
  \/ process_job_decode
  \/ process_job_poison
  \/ process_job_watermark
  \/ process_job_visual
  \/ process_job_alpha
  \/ process_job_verify
  \/ process_job_upload
  \/ process_job_artifacts
  \/ process_job_finish

Spec == Init /\ [][Next]_vars

\* The mist, grayscale and watermark apps and MistProcessor: their endpoints
\* and workers, on the same state map.
NextWorkers ==
  \/ \E app \in WorkerApps \cup {"legacy"} : submit_protection_job(app)
  \/ submit_read
  \/ submit_write
  \/ \E app \in WorkerApps : check_status(app)
  \/ worker_start
  \/ worker_download
  \/ worker_process
  \/ worker_upload
  \/ worker_finish

SpecWorkers == Init /\ [][NextWorkers]_vars

\* All five apps on the one state map.
NextApps == Next \/ NextWorkers

SpecApps == Init /\ [][NextApps]_vars

\* ------------------------------------------------------------- properties

\* The stages of the orchestrator whose exception reaches the outer except
\* clause; "state_lookup" is the job_states[...] lookup that opens a stage.
FatalStages ==
  {"state_lookup", "download", "decode", "poison", "watermark", "visual",
   "alpha", "encode", "upload"}

\* The process_job invocation has returned.
Returned(app) == job.app = app /\ job.pc = "done"

\* C1: in ModelService.process_job, a failure raised in any stage after the
\* first 'processing' write (download, decode, engine call, watermark,
\* overlay, alpha rejoin, PNG encode, protected upload) ends with the last
\* write storing status 'failed' and the text of the exception for the
\* artwork id, and with the returned result carrying 'failed' and that text.
C1_FailureEndsFailed ==
  [][(/\ Running("poisoning", "finish")
      /\ job'.pc = "done"
      /\ job.raised \cap FatalStages # {})
     => LET stored == job_states'[job.req.artwork_id]
        IN  /\ job.exception # NoError
            /\ stored.status = "failed"
            /\ stored.error = job.exception
            /\ stored.result = job'.result
            /\ job'.result.status = "failed"
            /\ job'.result.error_message = job.exception]_vars

\* A job whose protected upload failed has returned 'failed' and its entry
\* says so.
C1_Witness ==
  /\ Returned("poisoning")
  /\ "upload" \in job.raised
  /\ job.result.status = "failed"
  /\ job.result.error_message = Error("put_object failed")
  /\ job_states[job.req.artwork_id].status = "failed"

\* The download of the job was answered with a status that the worker
\* rejects: any status but 200 in the four apps that test status_code,
\* a 4xx or 5xx status in MistProcessor, which calls raise_for_status().
DownloadRejected(j) ==
  /\ j.http_status # 0
  /\ IF j.app = "legacy" THEN raise_for_status(j.http_status)
     ELSE j.http_status # HTTP_OK

DownloadFailureReported(j) ==
  /\ j.puts = <<>>
  /\ j.pc = "done" =>
       /\ j.result.status = "failed"
       /\ j.result.error_message.code = j.http_status

C3_WatermarkFailureRecovered ==
  (Returned("poisoning") /\ "watermark" \in job.raised)
    => /\ job.result.status = "completed"
       /\ \A i \in DOMAIN job.result.applied_protections :
            job.result.applied_protections[i] # "ai_watermark"

\* What the verification harness can raise or report: the remote call
\* raising and the upload of an artifact failing.
VerifierStages ==
  {"verifier_call", "artifact_pixel", "artifact_sdxl", "artifact_semantic"}

\* C4: no failure of the verification harness (the remote verifier call
\* raising, the verifier returning an error report, the upload of a
\* verification artifact failing) fails the job: when no protection stage
\* and no protected upload has failed, the job returns 'completed' whatever
\* the verifier did.
C4_VerifierNeverFailsJob ==
  (Returned("poisoning") /\ job.raised \cap FatalStages = {})
    => /\ job.result.status = "completed"
       /\ job_states[job.req.artwork_id].status \in {"completed", "absent"}

\* A job whose verifier call raised and was recorded has completed.
C4_Witness ==
  /\ Returned("poisoning")
  /\ "verifier_call" \in job.raised
  /\ job.result.verification_report.kind = "error"
  /\ job.result.status = "completed"

\* C5: in every ProtectionResult a stage name appears in
\* applied_protections only if that stage ran and succeeded; in particular
\* 'verification_audit' only if the verifier produced a report without an
\* error.
Applied(r, name) ==
  \E i \in DOMAIN r.applied_protections : r.applied_protections[i] = name

C5_AppliedOnlyIfSucceeded ==
  Returned("poisoning")
    => /\ Applied(job.result, "ai_watermark") => "watermark" \notin job.raised
       /\ Applied(job.result, "poison_ivy") => "poison" \notin job.raised
       /\ Applied(job.result, "verification_audit")
            => job.result.verification_report.kind = "audit"

\* C6: for every check_status request and every id that occurs in both
\* artwork_ids and ack_ids and has an entry in the state map, the response
\* contains that entry's state as it was before the request and the entry is
\* absent from the map afterwards, in each of the four apps.
C6_ReadFirstRemoveSecond ==
  [][(/\ job' = job
      /\ submit' = submit
      /\ response'.endpoint = "check_status"
      /\ response'.code = HTTP_OK)
     => \A aid \in response'.request.artwork_ids \cap response'.request.ack_ids :
          HasEntry(job_states, aid)
            => /\ aid \in DOMAIN response'.body
               /\ response'.body[aid] = job_states[aid]
               /\ ~HasEntry(job_states', aid)]_vars

\* C7: every submit request whose bearer token does not match the
\* configured token is answered with HTTP 401, whatever the request body
\* contains (any value of method included), in each app's submit endpoint.
C7_MismatchIs401 ==
  (/\ response.endpoint = "submit"
   /\ env # {}
   /\ Strip(response.request.credentials) # Token)
    => response.code = HTTP_401_UNAUTHORIZED

\* C8: during input download the bearer token is attached to the GET if and
\* only if the image URL matches '/api/assets/' and a token is configured;
\* for a URL that does not match no Authorization header is sent, in every
\* worker.
C8_TokenOnlyForAssets ==
  job.get_auth # "unsent"
    => (job.get_auth = "bearer"
          <=> MatchesAssets(job.req.image_url) /\ env # {})

\* The key the storage layout gives the protected output of a request.
LayoutKey(req, content) ==
  LET hex == {i \in 1..Len(req.image_url) :
                SegLen(req.image_url[i]) = HashLen /\ SegIsHex(req.image_url[i])}
      hash == IF hex = {} THEN Sha256(content)
              ELSE req.image_url[CHOOSE i \in hex : \A k \in hex : i <= k]
  IN  <<req.user_id, hash, "protected.png">>

\* C9: every protected output uploaded by any worker is stored under the
\* key '{owner}/{hash}/protected.png', owner being the request's user id and
\* hash the 64-hex segment of the source URL path or, when there is none, the
\* SHA-256 of the downloaded bytes.
C9_OwnerHashKey ==
  (job.puts # <<>> /\ job.puts[1].ok)
    => job.puts[1].key = LayoutKey(job.req, job.content)

\* C10: for every job whose input image has a side longer than config
\* max_res, the image is downscaled before any pipeline stage runs and the
\* uploaded output has no side longer than max_res.
C10_OutputWithinMaxRes ==
  (/\ job.app = "poisoning"
   /\ Longer(job.content.w, job.content.h) > job.req.config.max_res)
    => /\ job.pc \notin {"decode", "start", "download"}
          => Longer(job.img.width, job.img.height) <= job.req.config.max_res
       /\ \A i \in DOMAIN job.puts :
            job.puts[i].body # NoImg
              => Longer(job.puts[i].body.width, job.puts[i].body.height)
                   <= job.req.config.max_res

\* The alpha band of the input a poisoning job downloaded.
InputAlpha == [w |-> job.content.w, h |-> job.content.h, of |-> "input"]

RgbaJob == job.app = "poisoning" /\ job.content.mode = "RGBA"

\* C11: for an RGBA input and every combination of the flags, the uploaded
\* output is RGBA and its alpha band is the alpha band of the input (the
\* sizes being equal, no resize acts); no stage changes the band: it is
\* split off before the stages run and rejoined after them, and the image
\* the stages work on carries none.
C11_AlphaPreserved ==
  RgbaJob =>
    /\ job.alpha \in {NoAlpha, InputAlpha}
    /\ job.pc \in {"poison", "watermark", "visual", "alpha"}
         => job.alpha = InputAlpha /\ job.img.alpha = NoAlpha
    /\ \A i \in 1..Len(job.puts) :
         job.puts[i].body # NoImg =>
           /\ job.puts[i].body.mode = "RGBA"
           /\ job.puts[i].body.alpha = InputAlpha

C11_Witness ==
  /\ RgbaJob
  /\ Returned("poisoning")
  /\ job.result.status = "completed"
  /\ job.result.applied_protections =
       <<"poison_ivy", "ai_watermark", "visual_watermark">>
  /\ job.puts # <<>>
  /\ job.puts[1].ok
  /\ job.puts[1].body.alpha = InputAlpha

AllFlagsFalse(config) ==
  /\ ~config.apply_poison
  /\ ~config.apply_concept_poison
  /\ ~config.apply_watermark
  /\ ~config.apply_visual_watermark

InTrace(event) == \E i \in 1..Len(job.trace) : job.trace[i] = event

\* C12: with apply_poison, apply_concept_poison, apply_watermark and
\* apply_visual_watermark all false, neither the engine nor the watermark
\* codec is invoked, nothing is recorded as applied, the pixels uploaded are
\* those of the decoded input, and a job none of whose stages raised ends
\* with status 'completed' and applied_protections = [].
C12_NothingApplied ==
  (job.app = "poisoning" /\ AllFlagsFalse(job.req.config)) =>
    /\ ~InTrace("engine_call")
    /\ ~InTrace("apply_ssw_watermark")
    /\ ~InTrace("apply_visual_watermark")
    /\ job.applied_methods = <<>>
    /\ \A i \in 1..Len(job.puts) :
         /\ job.puts[i].body.layers = <<>>
         /\ job.puts[i].body.width = job.content.w
         /\ job.puts[i].body.height = job.content.h
         /\ job.puts[i].body.ssw_key = "none"
    /\ (Returned("poisoning") /\ job.raised \cap FatalStages = {})
         => /\ job.result.status = "completed"
            /\ job.result.applied_protections = <<>>

C12_Witness ==
  /\ job.app = "poisoning"
  /\ AllFlagsFalse(job.req.config)
  /\ Returned("poisoning")
  /\ job.result.status = "completed"
  /\ job.result.applied_protections = <<>>
  /\ Len(job.puts) = 1
  /\ job.puts[1].ok
  /\ job.puts[1].body.layers = <<>>
  /\ job.puts[1].body.width = job.content.w

\* C13: when apply_watermark is true and the verification audit runs, the
\* report carries a watermark_audit computed with the key the watermark was
\* embedded with (the generated UUID when secret_key is null), and it says
\* detected = true.
C13_WatermarkAudited ==
  (/\ job.app = "poisoning"
   /\ job.req.config.apply_watermark
   /\ job.verifier_report.kind = "audit")
  => /\ job.verifier_report.watermark_audit # NoAudit
     /\ job.verifier_report.watermark_audit.key = job.watermark_key
     /\ job.verifier_report.watermark_audit.detected

\* The position of the first occurrence of an event in the trace; 0 if none.
First(event) ==
  IF InTrace(event)
    THEN CHOOSE i \in 1..Len(job.trace) :
           /\ job.trace[i] = event
           /\ \A k \in 1..(i - 1) : job.trace[k] # event
    ELSE 0

HasLayer(img, layer) == \E i \in 1..Len(img.layers) : img.layers[i] = layer

\* The image carries the change of every protection recorded as applied.
CarriesApplied(img, applied) ==
  /\ (Applied([applied_protections |-> applied], "poison_ivy")
      \/ Applied([applied_protections |-> applied], "concept_cloak"))
       => HasLayer(img, "poison")
  /\ Applied([applied_protections |-> applied], "ai_watermark")
       => HasLayer(img, "ssw")
  /\ Applied([applied_protections |-> applied], "visual_watermark")
       => HasLayer(img, "visual")

\* C14: the stages of a job are strictly serialized: the watermark is
\* applied only after the engine call has returned, the verifier is called
\* on the image that carries every protection applied (the image that is
\* uploaded afterwards), and no put_object is issued before the final PNG
\* is encoded.
C14_StagesSerialized ==
  job.app = "poisoning" =>
    /\ (engine_wanted(job.req.config) /\ InTrace("apply_ssw_watermark"))
         => /\ InTrace("engine_return")
            /\ First("engine_call") < First("engine_return")
            /\ First("engine_return") < First("apply_ssw_watermark")
    /\ InTrace("verifier_call")
         => /\ CarriesApplied(job.verifier_img,
                              SelectSeq(job.applied_methods,
                                        LAMBDA m : m # "verification_audit"))
            /\ job.puts # <<>> => job.puts[1].body = job.verifier_img
            /\ InTrace("png_encode")
                 => First("verifier_call") < First("png_encode")
    /\ InTrace("put_object")
         => /\ InTrace("png_encode")
            /\ First("png_encode") < First("put_object")
    /\ Len(job.puts) > 0 => InTrace("put_object")

C14_Witness ==
  /\ Returned("poisoning")
  /\ job.result.status = "completed"
  /\ job.trace = <<"engine_call", "engine_return", "apply_ssw_watermark",
                   "apply_visual_watermark", "verifier_call", "png_encode",
                   "put_object", "put_object">>
  /\ job.verifier_img.layers = <<"poison", "ssw", "visual">>

\* C15: while a job runs, the message of its stored JobState is the message
\* of the latest stage boundary passed ('Downloading...', 'Generating
\* adversarial noise (GPU)...', 'Injecting invisible watermark...',
\* 'Running Verification Audit...').
C15_MessageFollowsStage ==
  (/\ job.app = "poisoning"
   /\ job.last_update # "none"
   /\ HasEntry(job_states, job.req.artwork_id)
   /\ job_states[job.req.artwork_id].status = "processing")
  => job_states[job.req.artwork_id].message = job.last_update

\* C19: a PoisonEngine call that runs to its 30-minute ceiling is a
\* soft-failed job: the orchestrator is still alive when the engine call
\* ends, and it writes 'failed' for the artwork id.
C19_EngineTimeoutSoftFails ==
  (job.app = "poisoning" /\ job.engine_seconds >= PoisonEngine_timeout)
  => /\ job.pc # "killed"
     /\ job.elapsed < ModelService_timeout
     /\ Returned("poisoning") => job.result.status = "failed"

EngineEnded == engine.pc \in {"returned", "raised"}

\* C16: with "steps": 0 in the config and the poison flag set, apply_poison
\* returns normally with delta still zero, and the image it returns is the
\* input unchanged.
C16_ZeroStepsReturns ==
  (EngineEnded /\ "steps" \in engine.config.keys /\ engine.steps = 0)
  => /\ engine.pc = "returned"
     /\ \A k \in DOMAIN engine.delta : engine.delta[k] = 0
     /\ engine.data = engine.base_work

Abs(x) == IF x < 0 THEN -x ELSE x

\* C17: after every PGD iteration, whatever the signs of the gradient, each
\* element of delta has magnitude at most epsilon (epsilon >= 0) and
\* base_work + delta lies in [0, 1]; the second projection (valid image
\* range) only moves an element towards zero, so it never leaves the
\* epsilon ball.
C17_DeltaProjected ==
  (engine.pc \in {"loop", "finish", "returned"} /\ engine.epsilon >= 0) =>
    /\ \A k \in DOMAIN engine.delta :
         /\ Abs(engine.delta[k]) <= engine.epsilon
         /\ engine.base_work[k] + engine.delta[k] >= 0
         /\ engine.base_work[k] + engine.delta[k] <= Unit
    /\ \A grad \in Grads(Len(engine.base_work)) :
         LET ball == epsilon_ball(pgd_step(engine.delta, grad,
                                           engine.alpha_step),
                                  engine.epsilon)
             ranged == valid_range(ball, engine.base_work)
         IN  \A k \in DOMAIN ranged :
               /\ Abs(ranged[k]) <= Abs(ball[k])
               /\ Abs(ranged[k]) <= engine.epsilon

\* Both projections have acted: the first element was cut at epsilon, the
\* second at the top of the pixel range.
C17_Witness ==
  /\ engine.pc = "loop"
  /\ engine.attempts >= 2
  /\ engine.base_work = <<1, 254>>
  /\ engine.epsilon = 2
  /\ engine.alpha_step = 4
  /\ engine.delta = <<2, 1>>

\* The table of presets: epsilon and alpha_step in units of 1/255, the
\* weights in hundredths.
PresetTable ==
  [Low |-> [epsilon |-> 6, alpha_step |-> 1, steps |-> 50,
            w_lpips |-> 500, w_repel |-> 100, w_attract |-> 100],
   Medium |-> [epsilon |-> 32, alpha_step |-> 2, steps |-> 200,
               w_lpips |-> 1, w_repel |-> 200, w_attract |-> 200],
   High |-> [epsilon |-> 80, alpha_step |-> 4, steps |-> 600,
             w_lpips |-> 0, w_repel |-> 1500, w_attract |-> 1000]]

PresetRow(config) ==
  IF "intensity" \in config.keys /\ config.intensity \in DOMAIN PresetTable
    THEN PresetTable[config.intensity]
    ELSE PresetTable["Medium"]

\* C18: the parameters the PGD loop runs with are those of the preset row of
\* the intensity (Low, Medium or High; any other or no value counts as
\* Medium), except that a config key 'epsilon' replaces the radius and a
\* config key 'steps' replaces the step count; a config key 'alpha' never
\* changes the step size.
C18_PresetsAndOverrides ==
  engine.pc \in {"loop", "finish", "returned", "raised"} =>
    LET row == PresetRow(engine.config)
    IN  /\ engine.epsilon = IF "epsilon" \in engine.config.keys
                              THEN engine.config.epsilon ELSE row.epsilon
        /\ engine.steps = IF "steps" \in engine.config.keys
                            THEN engine.config.steps ELSE row.steps
        /\ engine.alpha_step = row.alpha_step
        /\ engine.w_lpips = row.w_lpips
        /\ engine.w_repel = row.w_repel
        /\ engine.w_attract = row.w_attract

C18_Witness ==
  /\ engine.pc = "loop"
  /\ engine.config.keys = {"intensity", "epsilon", "alpha"}
  /\ engine.config.intensity = "High"
  /\ engine.config.alpha = 3
  /\ engine.alpha_step = 4
  /\ engine.epsilon = 2
  /\ engine.steps = 600

\* C20: when the loss or its backward pass fails at iteration i, the loop
\* goes on with iteration i+1: delta keeps the value it had, and every
\* remaining iteration is attempted.
C20_LoopContinuesAfterFailure ==
  (/\ engine.pc \in {"finish", "returned"}
   /\ engine.loop_e
   /\ engine.steps <= MaxIters)
  => engine.attempts = engine.steps

\* C24: the 'steps' field of the metrics apply_poison returns is the number
\* of PGD iterations that were executed: the configured steps when no
\* iteration failed.
C24_MetricsCountIterations ==
  (engine.pc = "returned" /\ engine.steps <= MaxIters)
  => /\ engine.metrics_steps = engine.attempts
     /\ ~engine.loop_e => engine.metrics_steps = engine.steps

\* C25: in the mist, grayscale and watermark apps, once the worker has
\* written 'processing', 'completed' or 'failed' for an artwork id, the
\* stored status of that id is never 'queued' again, whatever the
\* interleaving with the submit endpoint that spawned it.
C25_NeverBackToQueued ==
  (/\ job.app \in WorkerApps
   /\ job.pc \notin {"idle", "start"}
   /\ HasEntry(job_states, job.req.artwork_id))
  => job_states[job.req.artwork_id].status # "queued"

\* C27: in every ProtectionResult and stored JobState the poisoning
\* orchestrator produces, the error text is non-null exactly when the status
\* is 'failed'; a 'completed' job carries no error_message.
C27_ErrorIffFailed ==
  Returned("poisoning") =>
    /\ (job.result.error_message # NoError) <=> (job.result.status = "failed")
    /\ (HasEntry(job_states, job.req.artwork_id)
        /\ job_states[job.req.artwork_id].status \in {"completed", "failed"})
         => ((job_states[job.req.artwork_id].error # NoError)
               <=> (job_states[job.req.artwork_id].status = "failed"))

\* C28: a 'failed' ProtectionResult of the poisoning orchestrator has
\* protected_image_key and protected_image_url null and no protected object
\* was uploaded for the job; a 'completed' result names a key whose upload
\* had finished before 'completed' was written.
C28_FailedHasNoOutput ==
  Returned("poisoning") =>
    /\ job.result.status = "failed"
         => /\ job.result.protected_image_key = NoKey
            /\ job.result.protected_image_url = NoKey
            /\ \A i \in 1..Len(job.puts) :
                 ~(job.puts[i].ok /\ job.puts[i].body # NoImg)
    /\ job.result.status = "completed"
         => \E i \in 1..Len(job.puts) :
              /\ job.puts[i].ok
              /\ job.puts[i].key = job.result.protected_image_key

\* C26: a process_job invocation that has written 'processing' ends, on the
\* success path and on every exception path, with one terminal write
\* ('completed' or 'failed') as its last write to the state map, and the
\* status of the ProtectionResult it returns is the status it stored.  (An
\* invocation the platform ends at its timeout takes neither path and
\* returns nothing.)
C26_OneTerminalWrite ==
  [][(/\ job.pc # "done"
      /\ job'.pc = "done"
      /\ Len(job.writes) > 0)
     => /\ job'.result.status \in {"completed", "failed"}
        /\ job'.writes = <<"processing", job'.result.status>>
        /\ job_states'[job.req.artwork_id].status = job'.result.status]_vars

C26_Witness ==
  /\ Returned("mist")
  /\ job.raised # {}
  /\ job.result.status = "failed"
  /\ job.writes = <<"processing", "failed">>

\* The bucket and key under which the worker of an app uploads the output of
\* a request.
OutputPlace(app, req, content) ==
  IF app = "poisoning"
    THEN <<select_bucket(req), poisoning_protected_key(req, content)>>
    ELSE <<worker_bucket(app, req), worker_output_key(app, req, content)>>

\* C29: in every worker, two jobs submitted by different owners (different
\* user_id) never upload their output to the same key of the same bucket,
\* even when their source URLs carry the same hash segment: the place a job
\* has uploaded its output to is not the place of the same request made by
\* another owner.
C29_OwnersNeverShareKey ==
  (job.pc # "idle" /\ job.content \notin {NoContent, Garbage}) =>
    \A i \in 1..Len(job.puts) :
      (job.puts[i].ok /\ job.puts[i].body # NoImg) =>
        \A u \in UserIds \ {job.req.user_id} :
          OutputPlace(job.app, [job.req EXCEPT !.user_id = u], job.content)
            # <<job.puts[i].bucket, job.puts[i].key>>

\* C21: in every state of a verifier container, whatever calls of
\* verify_protection it has taken and whichever of their loads and
\* inferences failed, the engine holds at most one of the three model sets
\* (Moondream captioner, Flux pipelines, SDXL pipeline): each is released
\* before the next is loaded.
C21_OneModelSetHeld == Cardinality(verifier.held) <= 1

VerifierStages3 == {"semantic", "flux", "sdxl"}

\* C22: when a single verifier stage fails (semantic audit, Flux or SDXL,
\* the loading of its model included), the other stages are still executed
\* and the report returned has the normal structure, with only the failed
\* stage unsuccessful.
C22_StageFailureRecovered ==
  (/\ verifier.pc = "idle"
   /\ verifier.calls > 0
   /\ Cardinality(verifier.failed) = 1)
  => /\ verifier.report.kind = "audit"
     /\ verifier.ran = VerifierStages3 \ verifier.failed

TerminalEntry(j) ==
  IF j.app = "poisoning"
    THEN [status |-> j.result.status, result |-> j.result,
          error |-> j.result.error_message]
  ELSE IF j.result.status = "failed"
    THEN [status |-> "failed", error |-> j.result.error_message]
    ELSE [status |-> "completed", result |-> j.result]

\* C30: when two jobs for the same artwork id run concurrently, in one app
\* or in two apps sharing the state map, the terminal JobState stored under
\* the id after both have finished is that of the job submitted last, never
\* that of the older job.
C30_LatestJobWins ==
  (/\ job.pc = "done"
   /\ rival.pc = "done"
   /\ job.req.artwork_id = rival.req.artwork_id)
  => job_states[job.req.artwork_id].status = rival.result.status
     /\ (job_states[job.req.artwork_id].status = "completed"
           => job_states[job.req.artwork_id].result = rival.result)

====
